---- MODULE Spec2Model ----
(***************************************************************************)
(* Model of the just-todo task store (src/store/todoStore.ts), its derived *)
(* views (utils/helpers.ts) and the presentation-layer handlers that call  *)
(* it.  Text is a sequence of one-character strings, a Date is a record    *)
(* carrying its epoch time, and the persisted slot holds the JSON form of  *)
(* the partialized state (Dates as ISO text).                               *)
(***************************************************************************)
EXTENDS Integers, Sequences, FiniteSets, TLC

VARIABLES
    store,      \* the zustand state: todos, deletedTodos, filters, pagination
    storage,    \* the localStorage slot 'todo-storage'
    now,        \* the wall clock read by new Date()
    nextId      \* generateId: the next fresh identifier

vars == <<store, storage, now, nextId>>

-----------------------------------------------------------------------------
(* Bounds of the model *)

MaxTodos == 2       \* tasks ever created
MaxTime == 1        \* last value of the clock
MaxInstant == 3     \* last value of the clock where tasks are filtered by day
MaxPage == 2        \* largest page handed to setCurrentPage

(* One calendar day, in clock units *)
DayMs == 2

(* Ids handed to the operations: every id ever created and one never created *)
Ids == 1..(MaxTodos + 1)
Pages == (0 - 1)..MaxPage

(* Texts handed to addTodo / updateTodo *)
Texts == { <<" ">>, <<" ", "A">> }
(* Texts typed into the form and the edit box *)
FormTexts == { <<>>, <<" ">>, <<" ", "A">>, <<"b", " ">> }
(* Search queries *)
Queries == { <<>>, <<"a">> }
FilterTypes == { "all", "active", "completed" }
ItemsPerPageChoices == { 1, 2 }

-----------------------------------------------------------------------------
(* Dates: a Date object, its ISO-8601 text, and null *)

Date(t) == [type |-> "Date", ms |-> t]
ISOString(t) == [type |-> "string", ms |-> t]
Null == [type |-> "null", ms |-> 0]

(* new Date(x) for x a Date or ISO text *)
NewDate(x) == Date(x.ms)

(* JSON.stringify of a Date value: Date.prototype.toJSON gives ISO text *)
toJSON(d) == IF d.type = "Date" THEN ISOString(d.ms) ELSE d

(* d.setHours(0, 0, 0, 0) and d.setHours(23, 59, 59, 999): epoch time *)
startOfDay(d) == d.ms - (d.ms % DayMs)
endOfDay(d) == startOfDay(d) + DayMs - 1

NoDateFilter == [startDate |-> Null, endDate |-> Null, selectedDate |-> Null]

(* Date filters handed to setDateFilter *)
DateFilters ==
    { NoDateFilter,
      [startDate |-> Null, endDate |-> Null, selectedDate |-> Date(DayMs)],
      [startDate |-> Date(1), endDate |-> Date(DayMs), selectedDate |-> Null] }

(* Date filters handed to setDateFilter with tasks of several days: also a  *)
(* selected day together with a range, a lower bound alone, an upper bound  *)
(* alone                                                                    *)
ClockDateFilters ==
    DateFilters \cup
    { [startDate |-> Date(0), endDate |-> Date(1), selectedDate |-> Date(DayMs + 1)],
      [startDate |-> Date(DayMs), endDate |-> Null, selectedDate |-> Null],
      [startDate |-> Null, endDate |-> Date(1), selectedDate |-> Null] }

-----------------------------------------------------------------------------
(* Strings *)

lowerChar(c) ==
    IF c = "A" THEN "a" ELSE IF c = "B" THEN "b" ELSE IF c = "W" THEN "w" ELSE c

toLowerCase(s) == [i \in 1..Len(s) |-> lowerChar(s[i])]

RECURSIVE trimStart(_)
trimStart(s) ==
    IF s # <<>> /\ Head(s) = " " THEN trimStart(Tail(s)) ELSE s

RECURSIVE trimEnd(_)
trimEnd(s) ==
    IF s # <<>> /\ s[Len(s)] = " " THEN trimEnd(SubSeq(s, 1, Len(s) - 1)) ELSE s

trim(s) == trimEnd(trimStart(s))

includes(s, sub) ==
    \E i \in 0..(Len(s) - Len(sub)) : SubSeq(s, i + 1, i + Len(sub)) = sub

-----------------------------------------------------------------------------
(* Arithmetic and arrays *)

Min(a, b) == IF a <= b THEN a ELSE b
Max(a, b) == IF a >= b THEN a ELSE b

(* Math.ceil(a / b) for b > 0 *)
ceilDiv(a, b) == 0 - ((0 - a) \div b)

(* Array.prototype.slice(start, end): negative indices count from the end *)
slice(arr, start, end) ==
    LET len == Len(arr)
        k == IF start < 0 THEN Max(len + start, 0) ELSE Min(start, len)
        final == IF end < 0 THEN Max(len + end, 0) ELSE Min(end, len)
    IN  SubSeq(arr, k + 1, final)

IdsOf(todos) == { todos[i].id : i \in 1..Len(todos) }

-----------------------------------------------------------------------------
(* Derived views (utils/helpers.ts) *)

(* Mutant of filterTodos: the search compares the texts as written *)
filterTodosCaseSensitive(todos, filter, searchQuery) ==
    LET searched ==
            IF trim(searchQuery) # <<>>
            THEN SelectSeq(todos, LAMBDA todo : includes(todo.text, searchQuery))
            ELSE todos
    IN  CASE filter = "active" ->
                SelectSeq(searched, LAMBDA todo : ~todo.completed)
          [] filter = "completed" ->
                SelectSeq(searched, LAMBDA todo : todo.completed)
          [] OTHER -> searched

filterTodos(todos, filter, searchQuery) ==
    LET searched ==
            IF trim(searchQuery) # <<>>
            THEN SelectSeq(todos,
                     LAMBDA todo : includes(toLowerCase(todo.text),
                                            toLowerCase(searchQuery)))
            ELSE todos
    IN  CASE filter = "active" ->
                SelectSeq(searched, LAMBDA todo : ~todo.completed)
          [] filter = "completed" ->
                SelectSeq(searched, LAMBDA todo : todo.completed)
          [] OTHER -> searched

(* Mutants of dateMatches: the selected date compared to the instant; the   *)
(* upper bound exclusive; the range tried before the selected date          *)
dateMatchesInstant(todo, dateFilter) ==
    LET todoDate == startOfDay(NewDate(todo.createdAt))
    IN  IF dateFilter.selectedDate # Null
        THEN NewDate(todo.createdAt).ms = NewDate(dateFilter.selectedDate).ms
        ELSE IF dateFilter.startDate # Null /\ dateFilter.endDate # Null
        THEN /\ todoDate >= startOfDay(NewDate(dateFilter.startDate))
             /\ todoDate <= endOfDay(NewDate(dateFilter.endDate))
        ELSE IF dateFilter.startDate # Null
        THEN todoDate >= startOfDay(NewDate(dateFilter.startDate))
        ELSE IF dateFilter.endDate # Null
        THEN todoDate <= endOfDay(NewDate(dateFilter.endDate))
        ELSE TRUE

dateMatchesEndExclusive(todo, dateFilter) ==
    LET todoDate == startOfDay(NewDate(todo.createdAt))
    IN  IF dateFilter.selectedDate # Null
        THEN todoDate = startOfDay(NewDate(dateFilter.selectedDate))
        ELSE IF dateFilter.startDate # Null /\ dateFilter.endDate # Null
        THEN /\ todoDate >= startOfDay(NewDate(dateFilter.startDate))
             /\ todoDate < startOfDay(NewDate(dateFilter.endDate))
        ELSE IF dateFilter.startDate # Null
        THEN todoDate >= startOfDay(NewDate(dateFilter.startDate))
        ELSE IF dateFilter.endDate # Null
        THEN todoDate <= endOfDay(NewDate(dateFilter.endDate))
        ELSE TRUE

dateMatchesRangeFirst(todo, dateFilter) ==
    LET todoDate == startOfDay(NewDate(todo.createdAt))
    IN  IF dateFilter.startDate # Null /\ dateFilter.endDate # Null
        THEN /\ todoDate >= startOfDay(NewDate(dateFilter.startDate))
             /\ todoDate <= endOfDay(NewDate(dateFilter.endDate))
        ELSE IF dateFilter.selectedDate # Null
        THEN todoDate = startOfDay(NewDate(dateFilter.selectedDate))
        ELSE IF dateFilter.startDate # Null
        THEN todoDate >= startOfDay(NewDate(dateFilter.startDate))
        ELSE IF dateFilter.endDate # Null
        THEN todoDate <= endOfDay(NewDate(dateFilter.endDate))
        ELSE TRUE

dateMatches(todo, dateFilter) ==
    LET todoDate == startOfDay(NewDate(todo.createdAt))
    IN  IF dateFilter.selectedDate # Null
        THEN todoDate = startOfDay(NewDate(dateFilter.selectedDate))
        ELSE IF dateFilter.startDate # Null /\ dateFilter.endDate # Null
        THEN /\ todoDate >= startOfDay(NewDate(dateFilter.startDate))
             /\ todoDate <= endOfDay(NewDate(dateFilter.endDate))
        ELSE IF dateFilter.startDate # Null
        THEN todoDate >= startOfDay(NewDate(dateFilter.startDate))
        ELSE IF dateFilter.endDate # Null
        THEN todoDate <= endOfDay(NewDate(dateFilter.endDate))
        ELSE TRUE

(* Mutant of filterTodosByDate: setHours acts on the task's own createdAt,  *)
(* so the tasks come back moved to the start of their day                   *)
filterTodosByDateNormalises(todos, dateFilter) ==
    IF /\ dateFilter.selectedDate = Null
       /\ dateFilter.startDate = Null
       /\ dateFilter.endDate = Null
    THEN todos
    ELSE LET kept == SelectSeq(todos, LAMBDA todo : dateMatches(todo, dateFilter))
         IN  [i \in 1..Len(kept) |->
                [kept[i] EXCEPT !.createdAt = Date(startOfDay(kept[i].createdAt))]]

filterTodosByDate(todos, dateFilter) ==
    IF /\ dateFilter.selectedDate = Null
       /\ dateFilter.startDate = Null
       /\ dateFilter.endDate = Null
    THEN todos
    ELSE SelectSeq(todos, LAMBDA todo : dateMatches(todo, dateFilter))

(* Mutant of getPaginatedTodos: the slice starts one page too far *)
getPaginatedTodosSkipsFirst(todos, currentPage, itemsPerPage) ==
    LET totalPages == ceilDiv(Len(todos), itemsPerPage)
        startIndex == currentPage * itemsPerPage
        endIndex == startIndex + itemsPerPage
    IN  [paginatedTodos |-> slice(todos, startIndex, endIndex),
         totalPages |-> totalPages]

getPaginatedTodos(todos, currentPage, itemsPerPage) ==
    LET totalPages == ceilDiv(Len(todos), itemsPerPage)
        startIndex == (currentPage - 1) * itemsPerPage
        endIndex == startIndex + itemsPerPage
    IN  [paginatedTodos |-> slice(todos, startIndex, endIndex),
         totalPages |-> totalPages]

(* Mutant of getTodoStats: completed counts the tasks still to do *)
getTodoStatsCountsActive(todos) ==
    LET total == Len(todos)
        completed == Len(SelectSeq(todos, LAMBDA todo : ~todo.completed))
    IN  [total |-> total, completed |-> completed, active |-> total - completed]

getTodoStats(todos) ==
    LET total == Len(todos)
        completed == Len(SelectSeq(todos, LAMBDA todo : todo.completed))
    IN  [total |-> total, completed |-> completed, active |-> total - completed]

(* Mutant of useFilteredTodos: the date filter is not applied *)
useFilteredTodosSkipsDate(s) ==
    filterTodos(s.todos, s.currentFilter, s.searchQuery)

(* Selector hooks of the store *)
useFilteredTodos(s) ==
    filterTodosByDate(filterTodos(s.todos, s.currentFilter, s.searchQuery),
                      s.dateFilter)

usePaginatedTodos(s) ==
    getPaginatedTodos(useFilteredTodos(s), s.pagination.currentPage,
                      s.pagination.itemsPerPage)

(* Mutant of useTodoStats: the counts are taken over the filtered list *)
useTodoStatsOfVisible(s) == getTodoStats(useFilteredTodos(s))

useTodoStats(s) == getTodoStats(s.todos)

-----------------------------------------------------------------------------
(* The store (store/todoStore.ts) *)

(* Mutant of the initial state: five tasks per page *)
InitialStateFivePerPage ==
    [todos |-> <<>>,
     deletedTodos |-> <<>>,
     searchQuery |-> <<>>,
     currentFilter |-> "all",
     dateFilter |-> NoDateFilter,
     pagination |-> [currentPage |-> 1, itemsPerPage |-> 5, totalPages |-> 1]]

InitialState ==
    [todos |-> <<>>,
     deletedTodos |-> <<>>,
     searchQuery |-> <<>>,
     currentFilter |-> "all",
     dateFilter |-> NoDateFilter,
     pagination |-> [currentPage |-> 1, itemsPerPage |-> 10, totalPages |-> 1]]

findTodo(todos, id) ==
    LET hits == SelectSeq(todos, LAMBDA todo : todo.id = id)
    IN  IF hits = <<>> THEN <<>> ELSE <<Head(hits)>>

(* Mutant of addTodo: the new task goes to the end of the list *)
addTodoAppends(s, text, id, date) ==
    LET newTodo == [id |-> id, text |-> text, completed |-> FALSE,
                    createdAt |-> date]
    IN  [s EXCEPT !.todos = s.todos \o <<newTodo>>,
                  !.pagination.currentPage = 1]

addTodo(s, text, id, date) ==
    LET newTodo == [id |-> id, text |-> text, completed |-> FALSE,
                    createdAt |-> date]
    IN  [s EXCEPT !.todos = <<newTodo>> \o s.todos,
                  !.pagination.currentPage = 1]

(* Mutant of toggleTodo: the page is reset as the other task operations do *)
toggleTodoResetsPage(s, id) ==
    [s EXCEPT !.todos =
        [i \in 1..Len(s.todos) |->
            IF s.todos[i].id = id
            THEN [s.todos[i] EXCEPT !.completed = ~s.todos[i].completed]
            ELSE s.todos[i]],
              !.pagination.currentPage = 1]

toggleTodo(s, id) ==
    [s EXCEPT !.todos =
        [i \in 1..Len(s.todos) |->
            IF s.todos[i].id = id
            THEN [s.todos[i] EXCEPT !.completed = ~s.todos[i].completed]
            ELSE s.todos[i]]]

(* Mutant of deleteTodo: the update runs even when no task has the id *)
deleteTodoUnguarded(s, id, date) ==
    LET todoToDelete == findTodo(s.todos, id)
    IN  [s EXCEPT
            !.todos = SelectSeq(s.todos, LAMBDA todo : todo.id # id),
            !.deletedTodos =
                IF todoToDelete # <<>>
                THEN <<[todo |-> todoToDelete[1], deletedAt |-> date]>>
                        \o s.deletedTodos
                ELSE s.deletedTodos,
            !.pagination.currentPage =
                Min(s.pagination.currentPage,
                    ceilDiv(Len(s.todos) - 1, s.pagination.itemsPerPage))]

(* Mutant of deleteTodo: the undo record is kept but the task stays live *)
deleteTodoKeepsTask(s, id, date) ==
    LET todoToDelete == findTodo(s.todos, id)
    IN  IF todoToDelete # <<>>
        THEN [s EXCEPT
                !.deletedTodos =
                    <<[todo |-> todoToDelete[1], deletedAt |-> date]>>
                        \o s.deletedTodos]
        ELSE s

(* Mutant of deleteTodo: the task is removed but no undo record is kept *)
deleteTodoDropsRecord(s, id, date) ==
    LET todoToDelete == findTodo(s.todos, id)
    IN  IF todoToDelete # <<>>
        THEN [s EXCEPT
                !.todos = SelectSeq(s.todos, LAMBDA todo : todo.id # id),
                !.pagination.currentPage =
                    Min(s.pagination.currentPage,
                        ceilDiv(Len(s.todos) - 1, s.pagination.itemsPerPage))]
        ELSE s

deleteTodo(s, id, date) ==
    LET todoToDelete == findTodo(s.todos, id)
    IN  IF todoToDelete # <<>>
        THEN LET deletedTodo == [todo |-> todoToDelete[1], deletedAt |-> date]
             IN  [s EXCEPT
                    !.todos = SelectSeq(s.todos, LAMBDA todo : todo.id # id),
                    !.deletedTodos = <<deletedTodo>> \o s.deletedTodos,
                    !.pagination.currentPage =
                        Min(s.pagination.currentPage,
                            ceilDiv(Len(s.todos) - 1,
                                    s.pagination.itemsPerPage))]
        ELSE s

(* Mutants of undoDelete: the record stays on the stack; the task goes to    *)
(* the back; the oldest record is taken                                     *)
undoDeleteKeepsRecord(s) ==
    IF Len(s.deletedTodos) > 0
    THEN [s EXCEPT !.todos = <<Head(s.deletedTodos).todo>> \o s.todos,
                   !.pagination.currentPage = 1]
    ELSE s

undoDeleteAppends(s) ==
    IF Len(s.deletedTodos) > 0
    THEN [s EXCEPT !.todos = s.todos \o <<Head(s.deletedTodos).todo>>,
                   !.deletedTodos = Tail(s.deletedTodos),
                   !.pagination.currentPage = 1]
    ELSE s

undoDeleteOldest(s) ==
    IF Len(s.deletedTodos) > 0
    THEN [s EXCEPT
            !.todos = <<s.deletedTodos[Len(s.deletedTodos)].todo>> \o s.todos,
            !.deletedTodos = SubSeq(s.deletedTodos, 1, Len(s.deletedTodos) - 1),
            !.pagination.currentPage = 1]
    ELSE s

(* Mutant of undoDelete: the restored task is stamped with its deletion time *)
undoDeleteRestamps(s) ==
    IF Len(s.deletedTodos) > 0
    THEN LET latestDeleted == Head(s.deletedTodos)
             remainingDeleted == Tail(s.deletedTodos)
         IN  [s EXCEPT !.todos =
                          <<[latestDeleted.todo
                                EXCEPT !.createdAt = latestDeleted.deletedAt]>>
                              \o s.todos,
                       !.deletedTodos = remainingDeleted,
                       !.pagination.currentPage = 1]
    ELSE s

undoDelete(s) ==
    IF Len(s.deletedTodos) > 0
    THEN LET latestDeleted == Head(s.deletedTodos)
             remainingDeleted == Tail(s.deletedTodos)
         IN  [s EXCEPT !.todos = <<latestDeleted.todo>> \o s.todos,
                       !.deletedTodos = remainingDeleted,
                       !.pagination.currentPage = 1]
    ELSE s

updateTodo(s, id, text) ==
    [s EXCEPT !.todos =
        [i \in 1..Len(s.todos) |->
            IF s.todos[i].id = id
            THEN [s.todos[i] EXCEPT !.text = text]
            ELSE s.todos[i]]]

(* Mutant of clearCompleted: the removed tasks are put on the undo stack *)
clearCompletedRecords(s) ==
    LET removed == SelectSeq(s.todos, LAMBDA todo : todo.completed)
    IN  [s EXCEPT
            !.todos = SelectSeq(s.todos, LAMBDA todo : ~todo.completed),
            !.deletedTodos =
                [i \in 1..Len(removed) |->
                    [todo |-> removed[i], deletedAt |-> removed[i].createdAt]]
                    \o s.deletedTodos,
            !.pagination.currentPage = 1]

clearCompleted(s) ==
    [s EXCEPT !.todos = SelectSeq(s.todos, LAMBDA todo : ~todo.completed),
              !.pagination.currentPage = 1]

setSearchQuery(s, query) ==
    [s EXCEPT !.searchQuery = query, !.pagination.currentPage = 1]

setCurrentFilter(s, filter) ==
    [s EXCEPT !.currentFilter = filter, !.pagination.currentPage = 1]

(* Mutant of setDateFilter: fields that are null in the new filter keep     *)
(* their previous value                                                     *)
setDateFilterMerges(s, filter) ==
    [s EXCEPT
        !.dateFilter =
            [startDate |-> IF filter.startDate # Null
                           THEN filter.startDate ELSE s.dateFilter.startDate,
             endDate |-> IF filter.endDate # Null
                         THEN filter.endDate ELSE s.dateFilter.endDate,
             selectedDate |-> IF filter.selectedDate # Null
                              THEN filter.selectedDate
                              ELSE s.dateFilter.selectedDate],
        !.pagination.currentPage = 1]

setDateFilter(s, filter) ==
    [s EXCEPT !.dateFilter = filter, !.pagination.currentPage = 1]

clearDateFilter(s) ==
    [s EXCEPT !.dateFilter = NoDateFilter, !.pagination.currentPage = 1]

(* Mutant of setCurrentPage: pages below 1 are raised to 1 *)
setCurrentPageClamped(s, page) ==
    [s EXCEPT !.pagination.currentPage = Max(1, page)]

setCurrentPage(s, page) ==
    [s EXCEPT !.pagination.currentPage = page]

(* Mutant of setItemsPerPage: the page is left where it was *)
setItemsPerPageKeepsPage(s, itemsPerPage) ==
    [s EXCEPT !.pagination.itemsPerPage = itemsPerPage]

setItemsPerPage(s, itemsPerPage) ==
    [s EXCEPT !.pagination.itemsPerPage = itemsPerPage,
              !.pagination.currentPage = 1]

-----------------------------------------------------------------------------
(* Persistence: the persist middleware's options *)

(* Mutant of partialize: the live tasks are left out of the snapshot *)
partializeWithoutTodos(s) ==
    [todos |-> <<>>,
     deletedTodos |-> [i \in 1..Len(s.deletedTodos) |->
                    [todo |-> [s.deletedTodos[i].todo
                                  EXCEPT !.createdAt = toJSON(@)],
                     deletedAt |-> toJSON(s.deletedTodos[i].deletedAt)]],
     pagination |-> s.pagination]

(* Mutant of partialize: the search query is kept in the snapshot *)
partializeKeepsSearch(s) ==
    [todos |-> [i \in 1..Len(s.todos) |->
                    [s.todos[i] EXCEPT !.createdAt = toJSON(@)]],
     deletedTodos |-> [i \in 1..Len(s.deletedTodos) |->
                    [todo |-> [s.deletedTodos[i].todo
                                  EXCEPT !.createdAt = toJSON(@)],
                     deletedAt |-> toJSON(s.deletedTodos[i].deletedAt)]],
     pagination |-> s.pagination,
     searchQuery |-> s.searchQuery]

(* partialize, then JSON.stringify: every Date becomes ISO text *)
partialize(s) ==
    [todos |-> [i \in 1..Len(s.todos) |->
                    [s.todos[i] EXCEPT !.createdAt = toJSON(@)]],
     deletedTodos |-> [i \in 1..Len(s.deletedTodos) |->
                    [todo |-> [s.deletedTodos[i].todo
                                  EXCEPT !.createdAt = toJSON(@)],
                     deletedAt |-> toJSON(s.deletedTodos[i].deletedAt)]],
     pagination |-> s.pagination]

StoredItem(s) == [status |-> "ok", state |-> partialize(s)]
AbsentItem == [status |-> "absent", state |-> partialize(InitialState)]
CorruptItem == [status |-> "corrupt", state |-> partialize(InitialState)]

migrateDate(x) == IF x.type = "string" THEN NewDate(x) ELSE x

migrateTodos(todos) ==
    [i \in 1..Len(todos) |->
        [todos[i] EXCEPT !.createdAt = migrateDate(@)]]

(* Mutant of onRehydrateStorage: the undo records are left as read *)
onRehydrateStorageTodosOnly(s) ==
    [s EXCEPT !.todos = migrateTodos(s.todos)]

(* onRehydrateStorage's callback, applied to the merged state *)
onRehydrateStorage(s) ==
    [s EXCEPT !.todos = migrateTodos(s.todos),
              !.deletedTodos =
                 [i \in 1..Len(s.deletedTodos) |->
                    [todo |-> [s.deletedTodos[i].todo
                                  EXCEPT !.createdAt = migrateDate(@)],
                     deletedAt |-> migrateDate(s.deletedTodos[i].deletedAt)]]]

(* Mutant of rehydrate: the stored undo stack is not taken over *)
rehydrateWithoutUndo(item) ==
    IF item.status = "ok"
    THEN onRehydrateStorage(
             [InitialState EXCEPT !.todos = item.state.todos,
                                  !.pagination = item.state.pagination])
    ELSE InitialState

(* Hydration at start-up: the stored fields over the initial state *)
rehydrate(item) ==
    IF item.status = "ok"
    THEN onRehydrateStorage(
             [InitialState EXCEPT !.todos = item.state.todos,
                                  !.deletedTodos = item.state.deletedTodos,
                                  !.pagination = item.state.pagination])
    ELSE InitialState

-----------------------------------------------------------------------------
(* Presentation-layer handlers *)

(* Mutant of handleSubmit: the text is handed on as typed, unchecked *)
handleSubmitUnchecked(s, text, id, date) == addTodo(s, text, id, date)

(* Mutant of handleSubmit: the text is checked but handed on untrimmed *)
handleSubmitUntrimmed(s, text, id, date) ==
    IF trim(text) # <<>> THEN addTodo(s, text, id, date) ELSE s

(* TodoForm.handleSubmit: text is the form's input *)
handleSubmit(s, text, id, date) ==
    IF trim(text) # <<>> THEN addTodo(s, trim(text), id, date) ELSE s

(* Mutant of handleSave: the text is checked but handed on untrimmed *)
handleSaveUntrimmed(s, id, editText) ==
    IF trim(editText) # <<>> THEN updateTodo(s, id, editText) ELSE s

(* TodoItem.handleSave: editText is the edit box's content *)
handleSave(s, id, editText) ==
    IF trim(editText) # <<>> THEN updateTodo(s, id, trim(editText)) ELSE s

(* Mutant of handlePageChange: every requested page is handed on *)
handlePageChangeUnchecked(s, page) == setCurrentPage(s, page)

(* Pagination.handlePageChange *)
handlePageChange(s, page) ==
    IF page >= 1 /\ page <= usePaginatedTodos(s).totalPages
    THEN setCurrentPage(s, page)
    ELSE s

(* Pagination.handleItemsPerPageChange *)
handleItemsPerPageChange(s, itemsPerPage) ==
    setCurrentPage(setItemsPerPage(s, itemsPerPage), 1)

-----------------------------------------------------------------------------
(* Actions *)

(* A set() of the store: the new state, written through to the slot *)
Set(s) ==
    /\ store' = s
    /\ storage' = StoredItem(s)

Init ==
    /\ store = InitialState
    /\ storage \in {AbsentItem, CorruptItem}
    /\ now = 0
    /\ nextId = 1

Tick ==
    /\ now < MaxTime
    /\ now' = now + 1
    /\ UNCHANGED <<store, storage, nextId>>

(* The clock running over more than one day *)
TickDays ==
    /\ now < MaxInstant
    /\ now' = now + 1
    /\ UNCHANGED <<store, storage, nextId>>

AddTodo(text) ==
    /\ nextId <= MaxTodos
    /\ Set(addTodo(store, text, nextId, Date(now)))
    /\ nextId' = nextId + 1
    /\ UNCHANGED now

ToggleTodo(id) ==
    /\ Set(toggleTodo(store, id))
    /\ UNCHANGED <<now, nextId>>

DeleteTodo(id) ==
    /\ IF findTodo(store.todos, id) # <<>>
       THEN Set(deleteTodo(store, id, Date(now)))
       ELSE UNCHANGED <<store, storage>>
    /\ UNCHANGED <<now, nextId>>

UndoDelete ==
    /\ IF Len(store.deletedTodos) > 0
       THEN Set(undoDelete(store))
       ELSE UNCHANGED <<store, storage>>
    /\ UNCHANGED <<now, nextId>>

UpdateTodo(id, text) ==
    /\ Set(updateTodo(store, id, text))
    /\ UNCHANGED <<now, nextId>>

ClearCompleted ==
    /\ Set(clearCompleted(store))
    /\ UNCHANGED <<now, nextId>>

SetSearchQuery(query) ==
    /\ Set(setSearchQuery(store, query))
    /\ UNCHANGED <<now, nextId>>

SetCurrentFilter(filter) ==
    /\ Set(setCurrentFilter(store, filter))
    /\ UNCHANGED <<now, nextId>>

SetDateFilter(filter) ==
    /\ Set(setDateFilter(store, filter))
    /\ UNCHANGED <<now, nextId>>

ClearDateFilter ==
    /\ Set(clearDateFilter(store))
    /\ UNCHANGED <<now, nextId>>

SetCurrentPage(page) ==
    /\ Set(setCurrentPage(store, page))
    /\ UNCHANGED <<now, nextId>>

SetItemsPerPage(itemsPerPage) ==
    /\ Set(setItemsPerPage(store, itemsPerPage))
    /\ UNCHANGED <<now, nextId>>

(* A page reload: the in-memory state is rebuilt from the slot *)
Restart ==
    /\ store' = rehydrate(storage)
    /\ UNCHANGED <<storage, now, nextId>>

HandleSubmit(text) ==
    /\ nextId <= MaxTodos
    /\ IF trim(text) # <<>>
       THEN /\ Set(handleSubmit(store, text, nextId, Date(now)))
            /\ nextId' = nextId + 1
       ELSE UNCHANGED <<store, storage, nextId>>
    /\ UNCHANGED now

HandleSave(id, editText) ==
    /\ IF trim(editText) # <<>>
       THEN Set(handleSave(store, id, editText))
       ELSE UNCHANGED <<store, storage>>
    /\ UNCHANGED <<now, nextId>>

HandlePageChange(page) ==
    /\ IF page >= 1 /\ page <= usePaginatedTodos(store).totalPages
       THEN Set(handlePageChange(store, page))
       ELSE UNCHANGED <<store, storage>>
    /\ UNCHANGED <<now, nextId>>

HandleItemsPerPageChange(itemsPerPage) ==
    /\ Set(handleItemsPerPageChange(store, itemsPerPage))
    /\ UNCHANGED <<now, nextId>>

(* The store's own operations, called with any argument *)
Next ==
    \/ \E text \in Texts : AddTodo(text)
    \/ \E id \in Ids : ToggleTodo(id)
    \/ \E id \in Ids : DeleteTodo(id)
    \/ UndoDelete
    \/ \E id \in Ids, text \in Texts : UpdateTodo(id, text)
    \/ ClearCompleted
    \/ \E query \in Queries : SetSearchQuery(query)
    \/ \E filter \in FilterTypes : SetCurrentFilter(filter)
    \/ \E filter \in DateFilters : SetDateFilter(filter)
    \/ ClearDateFilter
    \/ \E page \in Pages : SetCurrentPage(page)
    \/ \E itemsPerPage \in ItemsPerPageChoices : SetItemsPerPage(itemsPerPage)
    \/ Restart

Spec == Init /\ [][Next]_vars

(* The store driven through the presentation layer's handlers: texts pass   *)
(* TodoForm / TodoItem, pages pass Pagination                                *)
NextUI ==
    \/ \E text \in FormTexts : HandleSubmit(text)
    \/ \E id \in Ids : ToggleTodo(id)
    \/ \E id \in Ids : DeleteTodo(id)
    \/ UndoDelete
    \/ \E id \in Ids, text \in FormTexts : HandleSave(id, text)
    \/ ClearCompleted
    \/ \E query \in Queries : SetSearchQuery(query)
    \/ \E filter \in FilterTypes : SetCurrentFilter(filter)
    \/ \E filter \in DateFilters : SetDateFilter(filter)
    \/ ClearDateFilter
    \/ \E page \in Pages : HandlePageChange(page)
    \/ \E itemsPerPage \in ItemsPerPageChoices :
          HandleItemsPerPageChange(itemsPerPage)
    \/ Restart

SpecUI == Init /\ [][NextUI]_vars

(* The task operations under a running clock, with the date filter *)
NextClock ==
    \/ Tick
    \/ \E text \in Texts : AddTodo(text)
    \/ \E id \in Ids : ToggleTodo(id)
    \/ \E id \in Ids : DeleteTodo(id)
    \/ UndoDelete
    \/ \E id \in Ids, text \in Texts : UpdateTodo(id, text)
    \/ ClearCompleted
    \/ \E filter \in DateFilters : SetDateFilter(filter)
    \/ ClearDateFilter
    \/ Restart

SpecClock == Init /\ [][NextClock]_vars

(* Tasks created over several days, deleted and restored, under the date    *)
(* filter                                                                   *)
NextDates ==
    \/ TickDays
    \/ AddTodo(<<" ", "A">>)
    \/ \E id \in Ids : DeleteTodo(id)
    \/ UndoDelete
    \/ \E filter \in ClockDateFilters : SetDateFilter(filter)
    \/ ClearDateFilter
    \/ Restart

SpecDates == Init /\ [][NextDates]_vars

-----------------------------------------------------------------------------
(* Vocabulary of the properties *)

(* ceil(n / size): the least k with k * size >= n, for n >= 0 and size > 0 *)
CeilOf(n, size) ==
    CHOOSE k \in 0..n : k * size >= n /\ (k = 0 \/ (k - 1) * size < n)

(* totalPages as the specification defines it: at least 1 *)
TotalPages(s) ==
    LET pages == CeilOf(Len(useFilteredTodos(s)), s.pagination.itemsPerPage)
    IN  IF pages < 1 THEN 1 ELSE pages

CurrentPage(s) == s.pagination.currentPage

IsBlank(text) == \A i \in 1..Len(text) : text[i] = " "

Spaces(n) == [i \in 1..n |-> " "]

(* t is text without its leading and trailing blanks *)
IsTrimOf(t, text) ==
    /\ t # <<>>
    /\ t[1] # " "
    /\ t[Len(t)] # " "
    /\ \E a, b \in 0..Len(text) : text = Spaces(a) \o t \o Spaces(b)

(* todos without its i-th element *)
Without(todos, i) == SubSeq(todos, 1, i - 1) \o SubSeq(todos, i + 1, Len(todos))

SameTask(a, b) ==
    /\ a.id = b.id
    /\ a.text = b.text
    /\ a.completed = b.completed
    /\ a.createdAt = b.createdAt

-----------------------------------------------------------------------------
(* C1: with setCurrentPage reached only through Pagination.handlePageChange *)
(* (pages in [1, totalPages]), currentPage stays within [1, totalPages] of  *)
(* the filtered and date-filtered list after every operation.               *)
C1_PageInRange ==
    /\ CurrentPage(store) >= 1
    /\ CurrentPage(store) <= TotalPages(store)

(* C2: no two tasks of the live collection have the same id. *)
C2_UniqueIds ==
    \A i, j \in 1..Len(store.todos) :
        i # j => store.todos[i].id # store.todos[j].id

(* a task restored by undoDelete in front of a task created after it *)
C2_Witness ==
    /\ Len(store.todos) >= 2
    /\ store.todos[1].id < store.todos[2].id

(* C3: deleteTodo(id) immediately followed by undoDelete() puts the same    *)
(* task (id, text, completed, createdAt) at index 0, keeps the other live   *)
(* tasks in their order, and gives the undo stack it started from.          *)
C3_DeleteThenUndo ==
    \A i \in 1..Len(store.todos) :
        LET task == store.todos[i]
            deleted == deleteTodo(store, task.id, Date(now))
            restored == undoDelete(deleted)
        IN  /\ Len(restored.todos) = Len(store.todos)
            /\ SameTask(restored.todos[1], task)
            /\ Tail(restored.todos) = Without(store.todos, i)
            /\ restored.deletedTodos = store.deletedTodos

(* an older task stands in front of a newer one: it was deleted and restored *)
C3_Witness ==
    /\ Len(store.todos) >= 2
    /\ store.todos[1].id < store.todos[2].id
    /\ store.todos[1].createdAt.ms < store.todos[2].createdAt.ms
    /\ store.todos[1].completed

(* C4: deleting t1..tN and then undoing N times restores tN, ..., t1 in     *)
(* that order; all N are live again and the undo stack is what it was.      *)
RECURSIVE deleteEach(_, _, _)
deleteEach(s, ids, k) ==
    IF k > Len(ids) THEN s
    ELSE deleteEach(deleteTodo(s, ids[k], Date(now)), ids, k + 1)

RECURSIVE undoTimes(_, _)
undoTimes(s, n) == IF n = 0 THEN s ELSE undoTimes(undoDelete(s), n - 1)

(* the sequences of n distinct live ids *)
DistinctIdSeqs(s, n) ==
    { ids \in [1..n -> IdsOf(s.todos)] :
        \A a, b \in 1..n : a # b => ids[a] # ids[b] }

C4_UndoIsLIFO ==
    \A n \in 1..Len(store.todos) :
        \A ids \in DistinctIdSeqs(store, n) :
            LET deleted == deleteEach(store, ids, 1)
                final == undoTimes(deleted, n)
            IN  /\ Len(deleted.todos) = Len(store.todos) - n
                /\ \A k \in 1..n :
                      undoTimes(deleted, k).todos[1].id = ids[n - k + 1]
                /\ { final.todos[i] : i \in 1..Len(final.todos) }
                      = { store.todos[i] : i \in 1..Len(store.todos) }
                /\ Len(final.todos) = Len(store.todos)
                /\ final.deletedTodos = store.deletedTodos

(* both tasks were deleted, oldest first, and both undone *)
C4_Witness ==
    /\ Len(store.todos) >= 2
    /\ store.deletedTodos = <<>>
    /\ \A i \in 1..(Len(store.todos) - 1) :
          store.todos[i].id < store.todos[i + 1].id
    /\ CurrentPage(store) = 1

(* C5: from currentPage >= 1, deleteTodo of an existing id sets currentPage *)
(* to min(currentPage, ceil(postDeleteCount / itemsPerPage)), never above   *)
(* the old page and never below 1, the last remaining task included.        *)
C5_DeleteClampsPage ==
    [][\A id \in IdsOf(store.todos) :
          (/\ CurrentPage(store) >= 1
           /\ store' = deleteTodo(store, id, Date(now)))
          => LET last == CeilOf(Len(store'.todos),
                                store.pagination.itemsPerPage)
             IN  /\ CurrentPage(store') =
                       IF CurrentPage(store) <= last
                       THEN CurrentPage(store) ELSE last
                 /\ CurrentPage(store') <= CurrentPage(store)
                 /\ CurrentPage(store') >= 1
      ]_vars

NoFilterActive(s) ==
    /\ IsBlank(s.searchQuery)
    /\ s.currentFilter = "all"
    /\ s.dateFilter = NoDateFilter

(* the page shown holds the task id and nothing else *)
OnlyTaskOnPage(s, id) ==
    LET page == usePaginatedTodos(s).paginatedTodos
    IN  Len(page) = 1 /\ page[1].id = id

(* the store after n addTodo calls, ids k..n *)
RECURSIVE addTasks(_, _, _)
addTasks(s, k, n) ==
    IF k > n THEN s
    ELSE addTasks(addTodo(s, <<"b">>, k, Date(0)), k + 1, n)

(* itemsPerPage = 10, 11 tasks, page 2: the page holds the first task added *)
ElevenTasksPageTwo == setCurrentPage(addTasks(InitialState, 1, 11), 2)

(* C6: with no filter active, currentPage the last page and one task on    *)
(* it, deleting that task lowers totalPages by one and leaves currentPage   *)
(* on the new last page.                                                    *)
C6_LastPageDelete ==
    [][\A id \in IdsOf(store.todos) :
          (/\ NoFilterActive(store)
           /\ CurrentPage(store) = TotalPages(store)
           /\ OnlyTaskOnPage(store, id)
           /\ store' = deleteTodo(store, id, Date(now)))
          => /\ TotalPages(store') = TotalPages(store) - 1
             /\ CurrentPage(store') = TotalPages(store')
      ]_vars

(* The scenario of C6 on its own: itemsPerPage = 10, 11 tasks, page 2;     *)
(* deleting the task of page 2 leaves 10 tasks, one page, currentPage = 1.  *)
ElevenTasksScenario ==
    /\ OnlyTaskOnPage(ElevenTasksPageTwo, 1)
    /\ LET after == deleteTodo(ElevenTasksPageTwo, 1, Date(now))
       IN  /\ Len(after.todos) = 10
           /\ usePaginatedTodos(after).totalPages = 1
           /\ CurrentPage(after) = 1

OnlyTextChanged(s, after, id, text) ==
    /\ Len(after.todos) = Len(s.todos)
    /\ \A i \in 1..Len(s.todos) :
          IF s.todos[i].id = id
          THEN /\ IsTrimOf(after.todos[i].text, text)
               /\ after.todos[i].id = s.todos[i].id
               /\ after.todos[i].completed = s.todos[i].completed
               /\ after.todos[i].createdAt = s.todos[i].createdAt
          ELSE after.todos[i] = s.todos[i]
    /\ after.deletedTodos = s.deletedTodos
    /\ after.pagination = s.pagination
    /\ after.searchQuery = s.searchQuery
    /\ after.currentFilter = s.currentFilter
    /\ after.dateFilter = s.dateFilter

C9_UnknownIdIsNoOp ==
    /\ \A id \in Ids \ IdsOf(store.todos) :
          /\ toggleTodo(store, id) = store
          /\ deleteTodo(store, id, Date(now)) = store
          /\ \A text \in Texts \cup FormTexts :
                updateTodo(store, id, text) = store
    /\ store.deletedTodos = <<>> => undoDelete(store) = store

(* an id that was live is gone, a task is live and the undo stack is empty *)
C9_Witness ==
    /\ store.deletedTodos = <<>>
    /\ store.todos # <<>>
    /\ \E id \in Ids \ IdsOf(store.todos) : id < nextId
    /\ CurrentPage(store) > TotalPages(store)

(* C10: getPaginatedTodos returns at most itemsPerPage tasks and            *)
(* totalPages = max(1, ceil(n / itemsPerPage)); for currentPage in          *)
(* [1, totalPages] the slice is the elements at indices                     *)
(* [(currentPage-1)*itemsPerPage, currentPage*itemsPerPage) of the list.    *)
C10_Paginate ==
    \A page \in Pages, size \in ItemsPerPageChoices \cup {10} :
        LET todos == store.todos
            n == Len(todos)
            result == getPaginatedTodos(todos, page, size)
            pages == IF CeilOf(n, size) < 1 THEN 1 ELSE CeilOf(n, size)
            first == (page - 1) * size + 1
            last == IF page * size < n THEN page * size ELSE n
        IN  /\ Len(result.paginatedTodos) <= size
            /\ result.totalPages = pages
            /\ (page >= 1 /\ page <= pages)
                  => result.paginatedTodos = SubSeq(todos, first, last)

(* C11: the totalPages held in the store's pagination state equals           *)
(* max(1, ceil(filteredCount / itemsPerPage)) of the current filtered list   *)
(* after every operation.                                                    *)
C11_StoredTotalPages == store.pagination.totalPages = TotalPages(store)

(* C12: for every currentPage outside [1, totalPages], every task list and   *)
(* every positive itemsPerPage, getPaginatedTodos returns an empty slice.    *)
C12_OutOfRangeEmpty ==
    \A page \in Pages \cup {MaxPage + 1}, size \in ItemsPerPageChoices \cup {10} :
        LET n == Len(store.todos)
            pages == IF CeilOf(n, size) < 1 THEN 1 ELSE CeilOf(n, size)
        IN  (page < 1 \/ page > pages)
               => getPaginatedTodos(store.todos, page, size).paginatedTodos = <<>>

(* C13: the stats of the live collection satisfy total = active + completed, *)
(* total = number of live tasks, completed = number of live tasks whose      *)
(* completed flag is true.                                                   *)
C13_StatsAddUp ==
    LET stats == useTodoStats(store)
    IN  /\ stats.total = stats.active + stats.completed
        /\ stats.total = Len(store.todos)
        /\ stats.completed =
              Cardinality({ i \in 1..Len(store.todos) : store.todos[i].completed })
        /\ stats.active =
              Cardinality({ i \in 1..Len(store.todos) : ~store.todos[i].completed })

(* a completed and an active task are live *)
C13_Witness ==
    /\ Len(store.todos) = 2
    /\ store.todos[1].completed
    /\ ~store.todos[2].completed

(* The calendar day of an instant, and the instants and date fields the     *)
(* date properties range over                                               *)
DayOf(d) == d.ms \div DayMs

Instants == { Date(t) : t \in 0..MaxInstant }

DateFields == Instants \cup {Null}

(* the tasks of todos created on a day in [first, last], in input order *)
CreatedWithin(todos, first, last) ==
    SelectSeq(todos, LAMBDA todo : /\ DayOf(todo.createdAt) >= first
                                   /\ DayOf(todo.createdAt) <= last)

LastDay == MaxInstant \div DayMs

(* C14: with selectedDate = D, filterTodosByDate returns exactly the tasks   *)
(* created on calendar day D, whatever the time of day of createdAt and of   *)
(* D, in input order.                                                        *)
C14_SelectedDay ==
    \A D \in Instants :
        filterTodosByDate(store.todos,
                          [startDate |-> Null, endDate |-> Null, selectedDate |-> D])
            = CreatedWithin(store.todos, DayOf(D), DayOf(D))

(* the selected day holds a task created later that day, another day's task  *)
(* is filtered out                                                           *)
C14_Witness ==
    /\ store.dateFilter.selectedDate = Date(DayMs)
    /\ store.dateFilter.startDate = Null
    /\ Len(store.todos) = 2
    /\ store.todos[1].createdAt.ms > DayMs
    /\ DayOf(store.todos[2].createdAt) = 0
    /\ useFilteredTodos(store) = <<store.todos[1]>>

(* C15: with selectedDate unset, startDate = A and endDate = B, A <= B,      *)
(* filterTodosByDate returns exactly the tasks created on a day in [A, B],   *)
(* both boundary days included, whatever the times of day.                   *)
C15_DayRange ==
    \A A, B \in Instants :
        A.ms <= B.ms =>
            filterTodosByDate(store.todos,
                              [startDate |-> A, endDate |-> B, selectedDate |-> Null])
                = CreatedWithin(store.todos, DayOf(A), DayOf(B))

(* the range starts late on its first day and ends early on its last day;   *)
(* a task from earlier on the first day and one from later on the last day  *)
(* are both kept                                                            *)
C15_Witness ==
    /\ store.dateFilter.selectedDate = Null
    /\ store.dateFilter.startDate = Date(1)
    /\ store.dateFilter.endDate = Date(DayMs)
    /\ Len(store.todos) = 2
    /\ store.todos[2].createdAt.ms < 1
    /\ store.todos[1].createdAt.ms > DayMs
    /\ DayOf(store.todos[1].createdAt) = 1
    /\ useFilteredTodos(store) = store.todos

(* C16: filterTodosByDate picks its rule by priority: selectedDate set,      *)
(* exact day (startDate and endDate ignored); else both bounds set,          *)
(* inclusive range; else startDate alone, that day or later; else endDate    *)
(* alone, that day or earlier; else the input list unchanged.                *)
C16_RulePriority ==
    \A D, A, B \in DateFields :
        filterTodosByDate(store.todos,
                          [startDate |-> A, endDate |-> B, selectedDate |-> D])
            = IF D # Null THEN CreatedWithin(store.todos, DayOf(D), DayOf(D))
              ELSE IF A # Null /\ B # Null
                   THEN CreatedWithin(store.todos, DayOf(A), DayOf(B))
              ELSE IF A # Null THEN CreatedWithin(store.todos, DayOf(A), LastDay)
              ELSE IF B # Null THEN CreatedWithin(store.todos, 0, DayOf(B))
              ELSE store.todos

(* a selected day and a range that excludes it are both set: the selected   *)
(* day's task is shown, the range's task is not                             *)
C16_Witness ==
    /\ store.dateFilter.selectedDate = Date(DayMs + 1)
    /\ store.dateFilter.startDate = Date(0)
    /\ store.dateFilter.endDate = Date(1)
    /\ Len(store.todos) = 2
    /\ DayOf(store.todos[2].createdAt) = 0
    /\ DayOf(store.todos[1].createdAt) = 1
    /\ useFilteredTodos(store) = <<store.todos[1]>>

(* Search queries the search properties range over *)
SearchQueries ==
    { <<>>, <<" ">>, <<"a">>, <<"A">>, <<"b">>, <<" ", "a">>, <<"a", " ">> }

SameLetter(a, b) ==
    \/ a = b
    \/ {a, b} \in { {"a", "A"}, {"b", "B"}, {"w", "W"} }

(* text contains q as a substring, letter case ignored *)
ContainsIgnoringCase(text, q) ==
    \E i \in 0..(Len(text) - Len(q)) :
        \A k \in 1..Len(q) : SameLetter(text[i + k], q[k])

SearchHolds(todo, q) == IsBlank(q) \/ ContainsIgnoringCase(todo.text, q)

StatusHolds(todo, filter) ==
    \/ filter = "all"
    \/ filter = "active" /\ ~todo.completed
    \/ filter = "completed" /\ todo.completed

DateHolds(todo, dateFilter) ==
    LET day == DayOf(todo.createdAt)
        D == dateFilter.selectedDate
        A == dateFilter.startDate
        B == dateFilter.endDate
    IN  IF D # Null THEN day = DayOf(D)
        ELSE /\ A # Null => day >= DayOf(A)
             /\ B # Null => day <= DayOf(B)

BuyMilk == <<"B", "u", "y", " ", "m", "i", "l", "k">>
WalkDog == <<"W", "a", "l", "k", " ", "d", "o", "g">>
BuyBread == <<"B", "u", "y", " ", "b", "r", "e", "a", "d">>

(* the store after adding "Buy milk", "Walk dog", "Buy bread" in that order *)
ThreeTasksAdded ==
    addTodo(addTodo(addTodo(InitialState, BuyMilk, 1, Date(0)),
                    WalkDog, 2, Date(0)),
            BuyBread, 3, Date(0))

TextsOf(todos) == [i \in 1..Len(todos) |-> todos[i].text]

(* C17: filterTodos(todos, 'all', q) returns exactly the live tasks whose    *)
(* text contains q as a case-insensitive substring, in the order of the      *)
(* list (most recent first after adds), and all live tasks when q is empty   *)
(* or whitespace-only; adding "Buy milk", "Walk dog", "Buy bread" and        *)
(* searching "buy" yields ["Buy bread", "Buy milk"].                         *)
C17_Search ==
    /\ \A q \in SearchQueries :
          filterTodos(store.todos, "all", q)
              = IF IsBlank(q) THEN store.todos
                ELSE SelectSeq(store.todos,
                               LAMBDA todo : ContainsIgnoringCase(todo.text, q))
    /\ TextsOf(filterTodos(ThreeTasksAdded.todos, "all", <<"b", "u", "y">>))
          = <<BuyBread, BuyMilk>>
    /\ TextsOf(filterTodos(ThreeTasksAdded.todos, "all", <<" ", " ">>))
          = <<BuyBread, WalkDog, BuyMilk>>

(* a lower-case query is active and shows the task written in upper case,   *)
(* not the other one                                                        *)
C17_Witness ==
    /\ store.searchQuery = <<"a">>
    /\ store.currentFilter = "all"
    /\ store.dateFilter = NoDateFilter
    /\ Len(store.todos) = 2
    /\ store.todos[1].text = <<" ", "A">>
    /\ store.todos[2].text = <<" ">>
    /\ useFilteredTodos(store) = <<store.todos[1]>>

(* C18: filterTodos returns the tasks that satisfy the search predicate and  *)
(* the status predicate; status first then search gives the same sequence    *)
(* as search first then status; the visible list is the tasks that satisfy   *)
(* the search, status and date predicates together.                          *)
C18_FiltersIntersect ==
    /\ \A filter \in FilterTypes, q \in Queries \cup { <<" ">>, <<" ", "a">> } :
          LET both == filterTodos(store.todos, filter, q)
              statusOnly == filterTodos(store.todos, filter, <<>>)
              searchOnly == filterTodos(store.todos, "all", q)
          IN  /\ both = SelectSeq(store.todos,
                            LAMBDA todo : SearchHolds(todo, q)
                                          /\ StatusHolds(todo, filter))
              /\ filterTodos(statusOnly, "all", q) = both
              /\ filterTodos(searchOnly, filter, <<>>) = both
    /\ useFilteredTodos(store)
          = SelectSeq(store.todos,
                LAMBDA todo : /\ SearchHolds(todo, store.searchQuery)
                              /\ StatusHolds(todo, store.currentFilter)
                              /\ DateHolds(todo, store.dateFilter))

(* search, status and date filter are all set; one task passes all three,   *)
(* one passes the search and the date filter only                           *)
C18_Witness ==
    /\ store.searchQuery = <<"a">>
    /\ store.currentFilter = "completed"
    /\ store.dateFilter.startDate = Date(1)
    /\ Len(store.todos) = 2
    /\ store.todos[1].text = <<" ", "A">>
    /\ store.todos[2].text = <<" ", "A">>
    /\ store.todos[2].completed
    /\ useFilteredTodos(store) = <<store.todos[2]>>

(* after differs from s in at most the fields named in changed, and in      *)
(* currentPage                                                              *)
OnlyChanged(s, after, changed) ==
    /\ after.todos = s.todos
    /\ after.deletedTodos = s.deletedTodos
    /\ "searchQuery" \in changed \/ after.searchQuery = s.searchQuery
    /\ "currentFilter" \in changed \/ after.currentFilter = s.currentFilter
    /\ "dateFilter" \in changed \/ after.dateFilter = s.dateFilter
    /\ "itemsPerPage" \in changed
          \/ after.pagination.itemsPerPage = s.pagination.itemsPerPage
    /\ after.pagination.totalPages = s.pagination.totalPages

(* C19: from any prior currentPage, addTodo, undoDelete (non-empty stack),   *)
(* clearCompleted, setSearchQuery, setCurrentFilter, setDateFilter,          *)
(* clearDateFilter and setItemsPerPage leave currentPage = 1; the filter     *)
(* setters and setItemsPerPage change nothing but their own field and        *)
(* currentPage.                                                              *)
C19_ResetToFirstPage ==
    /\ \A text \in Texts :
          CurrentPage(addTodo(store, text, nextId, Date(now))) = 1
    /\ store.deletedTodos # <<>> => CurrentPage(undoDelete(store)) = 1
    /\ CurrentPage(clearCompleted(store)) = 1
    /\ \A query \in Queries :
          LET after == setSearchQuery(store, query)
          IN  /\ CurrentPage(after) = 1
              /\ after.searchQuery = query
              /\ OnlyChanged(store, after, {"searchQuery"})
    /\ \A filter \in FilterTypes :
          LET after == setCurrentFilter(store, filter)
          IN  /\ CurrentPage(after) = 1
              /\ after.currentFilter = filter
              /\ OnlyChanged(store, after, {"currentFilter"})
    /\ \A filter \in ClockDateFilters :
          LET after == setDateFilter(store, filter)
          IN  /\ CurrentPage(after) = 1
              /\ after.dateFilter = filter
              /\ OnlyChanged(store, after, {"dateFilter"})
    /\ LET after == clearDateFilter(store)
       IN  /\ CurrentPage(after) = 1
           /\ after.dateFilter = NoDateFilter
           /\ OnlyChanged(store, after, {"dateFilter"})
    /\ \A itemsPerPage \in ItemsPerPageChoices \cup {5} :
          /\ LET after == setItemsPerPage(store, itemsPerPage)
             IN  /\ CurrentPage(after) = 1
                 /\ after.pagination.itemsPerPage = itemsPerPage
                 /\ OnlyChanged(store, after, {"itemsPerPage"})
          /\ LET after == handleItemsPerPageChange(store, itemsPerPage)
             IN  /\ CurrentPage(after) = 1
                 /\ after.pagination.itemsPerPage = itemsPerPage
                 /\ OnlyChanged(store, after, {"itemsPerPage"})

(* page 2 is shown, with a completed task live, a record on the undo stack  *)
(* and a search and a date filter set                                       *)
C19_Witness ==
    /\ CurrentPage(store) = 2
    /\ store.deletedTodos # <<>>
    /\ store.todos # <<>>
    /\ store.todos[1].completed
    /\ store.searchQuery = <<"a">>
    /\ store.dateFilter.selectedDate # Null
    /\ store.pagination.itemsPerPage = 2

(* the indices of the active tasks of todos, and the k-th of them *)
ActiveAt(todos) == { i \in 1..Len(todos) : ~todos[i].completed }

KthActive(todos, k) ==
    CHOOSE i \in ActiveAt(todos) :
        Cardinality({ j \in ActiveAt(todos) : j <= i }) = k

(* C20: clearCompleted removes exactly the live tasks with completed = true, *)
(* keeps every active task in its previous relative order and leaves the     *)
(* undo stack unchanged, so a following undoDelete restores none of the      *)
(* tasks it removed.                                                         *)
C20_ClearCompleted ==
    LET after == clearCompleted(store)
        removed == { store.todos[i].id : i \in 1..Len(store.todos) \ ActiveAt(store.todos) }
    IN  /\ Len(after.todos) = Cardinality(ActiveAt(store.todos))
        /\ \A k \in 1..Len(after.todos) :
              after.todos[k] = store.todos[KthActive(store.todos, k)]
        /\ after.deletedTodos = store.deletedTodos
        /\ IdsOf(undoDelete(after).todos) \cap removed = {}
        /\ undoDelete(after).todos
              = (IF store.deletedTodos = <<>> THEN <<>>
                 ELSE <<store.deletedTodos[1].todo>>) \o after.todos

(* a completed task is live and the record of a newer, active task is on    *)
(* the undo stack                                                           *)
C20_Witness ==
    /\ Len(store.todos) = 1
    /\ store.todos[1].completed
    /\ Len(store.deletedTodos) = 1
    /\ ~store.deletedTodos[1].todo.completed
    /\ store.deletedTodos[1].todo.id > store.todos[1].id

(* C21: setCurrentPage(p) sets currentPage to p verbatim, also for 0,        *)
(* negative p and p above totalPages, and changes nothing else.              *)
C21_SetCurrentPageVerbatim ==
    \A page \in Pages \cup {MaxPage + 1} :
        LET after == setCurrentPage(store, page)
        IN  /\ CurrentPage(after) = page
            /\ OnlyChanged(store, after, {})

(* the store holds a negative page, below every valid one *)
C21_Witness ==
    /\ CurrentPage(store) < 0
    /\ Len(store.todos) = 2
    /\ store.pagination.itemsPerPage = 1
    /\ store.currentFilter = "active"

(* the snapshot of a state: tasks, undo records and pagination, every date  *)
(* as ISO text                                                              *)
SnapshotTask(todo) ==
    [id |-> todo.id, text |-> todo.text, completed |-> todo.completed,
     createdAt |-> ISOString(todo.createdAt.ms)]

Snapshot(s) ==
    [todos |-> [i \in 1..Len(s.todos) |-> SnapshotTask(s.todos[i])],
     deletedTodos |->
        [i \in 1..Len(s.deletedTodos) |->
            [todo |-> SnapshotTask(s.deletedTodos[i].todo),
             deletedAt |-> ISOString(s.deletedTodos[i].deletedAt.ms)]],
     pagination |->
        [currentPage |-> s.pagination.currentPage,
         itemsPerPage |-> s.pagination.itemsPerPage,
         totalPages |-> s.pagination.totalPages]]

DefaultFilters(s) ==
    /\ s.searchQuery = <<>>
    /\ s.currentFilter = "all"
    /\ s.dateFilter.selectedDate = Null
    /\ s.dateFilter.startDate = Null
    /\ s.dateFilter.endDate = Null

(* C22: once an operation has changed the state, the persisted snapshot      *)
(* equals the in-memory {todos, deletedTodos, pagination}; searchQuery,      *)
(* currentFilter and dateFilter are not part of it, so after a restart they  *)
(* have their defaults.                                                      *)
C22_SnapshotFollowsState ==
    /\ storage.status = "ok" => storage.state = Snapshot(store)
    /\ storage.status # "ok" => store = InitialState
    /\ DOMAIN storage.state = {"todos", "deletedTodos", "pagination"}
    /\ DefaultFilters(rehydrate(storage))

(* tasks and an undo record are stored while all three filters are set *)
C22_Witness ==
    /\ storage.status = "ok"
    /\ store.todos # <<>>
    /\ store.deletedTodos # <<>>
    /\ store.searchQuery = <<"a">>
    /\ store.currentFilter = "completed"
    /\ store.dateFilter.selectedDate # Null

(* C23: serializing a state, clearing the in-memory state and rehydrating    *)
(* yields live tasks equal field for field and in the same order, createdAt  *)
(* a date value; the same for the undo records' task.createdAt and           *)
(* deletedAt.                                                                *)
C23_RoundTrip ==
    LET back == rehydrate(StoredItem(store))
    IN  /\ Len(back.todos) = Len(store.todos)
        /\ \A i \in 1..Len(store.todos) :
              /\ SameTask(back.todos[i], store.todos[i])
              /\ back.todos[i].createdAt.type = "Date"
        /\ Len(back.deletedTodos) = Len(store.deletedTodos)
        /\ \A i \in 1..Len(store.deletedTodos) :
              /\ SameTask(back.deletedTodos[i].todo, store.deletedTodos[i].todo)
              /\ back.deletedTodos[i].todo.createdAt.type = "Date"
              /\ back.deletedTodos[i].deletedAt = store.deletedTodos[i].deletedAt
              /\ back.deletedTodos[i].deletedAt.type = "Date"
        /\ back.pagination = store.pagination

(* a live task and an undo record, created and deleted at different times,  *)
(* are in the snapshot as text                                              *)
C23_Witness ==
    /\ storage.status = "ok"
    /\ Len(storage.state.todos) = 1
    /\ Len(storage.state.deletedTodos) = 1
    /\ storage.state.todos[1].createdAt = ISOString(1)
    /\ storage.state.deletedTodos[1].todo.createdAt = ISOString(0)
    /\ storage.state.deletedTodos[1].deletedAt = ISOString(1)
    /\ store.todos[1].createdAt = Date(1)

(* the empty defaults *)
EmptyDefaults(s) ==
    /\ s.todos = <<>>
    /\ s.deletedTodos = <<>>
    /\ s.pagination.currentPage = 1
    /\ s.pagination.itemsPerPage = 10
    /\ DefaultFilters(s)

(* C24: when the persisted slot is absent or cannot be parsed at startup,    *)
(* the store starts with the empty defaults: no tasks, empty undo stack,     *)
(* currentPage 1, itemsPerPage 10, default filters.                          *)
C24_StartFromDefaults ==
    /\ EmptyDefaults(rehydrate(AbsentItem))
    /\ EmptyDefaults(rehydrate(CorruptItem))
    /\ storage.status # "ok" => EmptyDefaults(rehydrate(storage))

(* the slot cannot be parsed and the store has started empty *)
C24_Witness ==
    /\ storage.status = "corrupt"
    /\ store.todos = <<>>
    /\ store.pagination.itemsPerPage = 10
    /\ nextId = 1

(* every task the state holds: live or on the undo stack *)
TasksOf(s) ==
    { s.todos[i] : i \in 1..Len(s.todos) }
        \cup { s.deletedTodos[i].todo : i \in 1..Len(s.deletedTodos) }

(* C25: a task's id and createdAt never change: in every step a task that    *)
(* is held before and after has the createdAt it had, and a task that is     *)
(* new has createdAt = now.                                                  *)
C25_CreationFieldsFixed ==
    [][\A after \in TasksOf(store') :
          /\ \A before \in TasksOf(store) :
                before.id = after.id => after.createdAt = before.createdAt
          /\ (\A before \in TasksOf(store) : before.id # after.id)
                => after.createdAt = Date(now)
      ]_vars

(* a task deleted and restored sits ahead of a newer one, after the clock   *)
(* has moved on                                                             *)
C25_Witness ==
    /\ now = 1
    /\ Len(store.todos) = 2
    /\ store.deletedTodos = <<>>
    /\ store.todos[1].id = 1
    /\ store.todos[1].createdAt = Date(0)
    /\ store.todos[2].createdAt = Date(1)
    /\ store.todos[1].completed
    /\ store.todos[1].text # store.todos[2].text

(* C26: addTodo with a valid text puts exactly one new task at index 0, with *)
(* a fresh id, completed = false and createdAt = now, keeps the previous     *)
(* tasks unchanged and in order after it, and leaves the undo stack          *)
(* unchanged.                                                                *)
C26_AddPrepends ==
    \A text \in { t \in Texts \cup FormTexts : ~IsBlank(t) } :
        LET after == addTodo(store, text, nextId, Date(now))
        IN  /\ Len(after.todos) = Len(store.todos) + 1
            /\ after.todos[1].id = nextId
            /\ \A task \in TasksOf(store) : task.id # after.todos[1].id
            /\ after.todos[1].text = text
            /\ after.todos[1].completed = FALSE
            /\ after.todos[1].createdAt = Date(now)
            /\ \A i \in 1..Len(store.todos) : after.todos[i + 1] = store.todos[i]
            /\ after.deletedTodos = store.deletedTodos

(* the newest task, created now and not completed, sits ahead of an older,  *)
(* completed one                                                            *)
C26_Witness ==
    /\ now = 1
    /\ Len(store.todos) = 2
    /\ store.todos[1].id = nextId - 1
    /\ store.todos[1].createdAt = Date(now)
    /\ ~store.todos[1].completed
    /\ store.todos[2].completed
    /\ store.todos[2].createdAt = Date(0)

(* C27: toggleTodo(id) for a live id flips completed on that task only: its  *)
(* id, text, createdAt and position, every other task, the undo stack, the   *)
(* filter state and pagination are unchanged.                                *)
C27_ToggleFlipsOne ==
    \A id \in IdsOf(store.todos) :
        LET after == toggleTodo(store, id)
        IN  /\ Len(after.todos) = Len(store.todos)
            /\ \A i \in 1..Len(store.todos) :
                  IF store.todos[i].id = id
                  THEN /\ after.todos[i].completed = ~store.todos[i].completed
                       /\ after.todos[i].id = id
                       /\ after.todos[i].text = store.todos[i].text
                       /\ after.todos[i].createdAt = store.todos[i].createdAt
                  ELSE after.todos[i] = store.todos[i]
            /\ after.deletedTodos = store.deletedTodos
            /\ after.searchQuery = store.searchQuery
            /\ after.currentFilter = store.currentFilter
            /\ after.dateFilter = store.dateFilter
            /\ after.pagination = store.pagination

(* page 2 of the active tasks was shown when the first task was completed:  *)
(* the page is still 2                                                      *)
C27_Witness ==
    /\ store.currentFilter = "active"
    /\ store.pagination.itemsPerPage = 1
    /\ CurrentPage(store) = 2
    /\ Len(store.todos) = 2
    /\ store.todos[1].completed
    /\ ~store.todos[2].completed

(* sub can be had from full by leaving elements out *)
RECURSIVE IsSubsequence(_, _)
IsSubsequence(sub, full) ==
    IF sub = <<>> THEN TRUE
    ELSE IF full = <<>> THEN FALSE
    ELSE IF Head(sub) = Head(full) THEN IsSubsequence(Tail(sub), Tail(full))
    ELSE IsSubsequence(sub, Tail(full))

(* C28: the derived-view functions do not modify the task list or a task     *)
(* they are given (a task's createdAt included): every list they return is   *)
(* a subsequence, in input order, of the input as it was handed in.          *)
C28_ViewsLeaveInput ==
    /\ \A filter \in FilterTypes, q \in Queries :
          IsSubsequence(filterTodos(store.todos, filter, q), store.todos)
    /\ \A filter \in ClockDateFilters :
          IsSubsequence(filterTodosByDate(store.todos, filter), store.todos)
    /\ \A page \in Pages, size \in ItemsPerPageChoices :
          IsSubsequence(getPaginatedTodos(store.todos, page, size).paginatedTodos,
                        store.todos)
    /\ IsSubsequence(useFilteredTodos(store), store.todos)
    /\ IsSubsequence(usePaginatedTodos(store).paginatedTodos, store.todos)

(* an upper bound is set; the task kept was created after the start of its  *)
(* day, the newer task is filtered out                                      *)
C28_Witness ==
    /\ store.dateFilter.endDate = Date(1)
    /\ store.dateFilter.startDate = Null
    /\ store.dateFilter.selectedDate = Null
    /\ Len(store.todos) = 2
    /\ store.todos[2].createdAt = Date(1)
    /\ DayOf(store.todos[1].createdAt) = 1
    /\ useFilteredTodos(store) = <<store.todos[2]>>

(* C29: setDateFilter(d) replaces the whole dateFilter by d: a field set     *)
(* before and none in d is none afterwards; clearDateFilter sets all three   *)
(* fields to none, after which date filtering is the identity.               *)
C29_DateFilterReplaced ==
    /\ \A filter \in ClockDateFilters :
          LET after == setDateFilter(store, filter).dateFilter
          IN  /\ after.selectedDate = filter.selectedDate
              /\ after.startDate = filter.startDate
              /\ after.endDate = filter.endDate
    /\ LET after == clearDateFilter(store)
       IN  /\ after.dateFilter.selectedDate = Null
           /\ after.dateFilter.startDate = Null
           /\ after.dateFilter.endDate = Null
           /\ filterTodosByDate(after.todos, after.dateFilter) = store.todos

(* a lower bound alone is set and hides the older of two tasks *)
C29_Witness ==
    /\ store.dateFilter.startDate = Date(DayMs)
    /\ store.dateFilter.endDate = Null
    /\ store.dateFilter.selectedDate = Null
    /\ Len(store.todos) = 2
    /\ DayOf(store.todos[2].createdAt) = 0
    /\ useFilteredTodos(store) = <<store.todos[1]>>

(* C30: no operation is seen half-applied: in every step a task that leaves  *)
(* the live collection either has its undo record pushed in the same step,   *)
(* with the page clamped, or is one of the completed tasks cleared together; *)
(* a record that leaves the undo stack has its task re-inserted at the       *)
(* front, with the page reset; and a snapshot written is that of the new     *)
(* state.                                                                    *)
C30_WholeOperations ==
    [][/\ \A i \in 1..Len(store.todos) :
             store.todos[i].id \notin IdsOf(store'.todos) =>
                \/ /\ store'.deletedTodos =
                         <<[todo |-> store.todos[i], deletedAt |-> Date(now)]>>
                             \o store.deletedTodos
                   /\ store'.todos = Without(store.todos, i)
                   /\ LET last == CeilOf(Len(store'.todos),
                                         store.pagination.itemsPerPage)
                      IN  CurrentPage(store') =
                             IF CurrentPage(store) <= last
                             THEN CurrentPage(store) ELSE last
                \/ /\ store.todos[i].completed
                   /\ store'.deletedTodos = store.deletedTodos
                   /\ \A j \in 1..Len(store'.todos) : ~store'.todos[j].completed
                   /\ Len(store'.todos) = Cardinality(ActiveAt(store.todos))
                   /\ CurrentPage(store') = 1
       /\ Len(store'.deletedTodos) < Len(store.deletedTodos) =>
             /\ store'.deletedTodos = Tail(store.deletedTodos)
             /\ store'.todos = <<store.deletedTodos[1].todo>> \o store.todos
             /\ CurrentPage(store') = 1
       /\ Len(store'.deletedTodos) > Len(store.deletedTodos) =>
             /\ Tail(store'.deletedTodos) = store.deletedTodos
             /\ store'.deletedTodos[1].todo.id \in IdsOf(store.todos)
             /\ store'.deletedTodos[1].todo.id \notin IdsOf(store'.todos)
       /\ Len(store'.todos) > Len(store.todos) => CurrentPage(store') = 1
       /\ storage' # storage => storage'.state = Snapshot(store')
      ]_vars

(* two tasks were deleted one after the other; both records and the         *)
(* clamped page are in the snapshot                                         *)
C30_Witness ==
    /\ store.todos = <<>>
    /\ Len(store.deletedTodos) = 2
    /\ store.deletedTodos[1].deletedAt = Date(1)
    /\ store.deletedTodos[2].deletedAt = Date(0)
    /\ storage.status = "ok"
    /\ Len(storage.state.deletedTodos) = 2
    /\ storage.state.pagination.currentPage = CurrentPage(store)

(* C31: with tasks created and edited only through TodoForm.handleSubmit    *)
(* and TodoItem.handleSave, every task in the live collection and in the     *)
(* undo stack has a non-empty text with no leading or trailing whitespace.   *)
C31_TextsTrimmed ==
    \A task \in TasksOf(store) :
        /\ Len(task.text) >= 1
        /\ task.text[1] # " "
        /\ task.text[Len(task.text)] # " "

(* a task typed with a leading blank is live, one typed with a trailing     *)
(* blank is on the undo stack                                               *)
C31_Witness ==
    /\ Len(store.todos) = 1
    /\ Len(store.deletedTodos) = 1
    /\ store.todos[1].text = <<"A">>
    /\ store.deletedTodos[1].todo.text = <<"b">>

(* C32: Pagination.handlePageChange calls setCurrentPage only with a page in *)
(* [1, totalPages] of the current filtered list; a request outside that      *)
(* range leaves the state unchanged, so navigation alone never takes         *)
(* currentPage out of range.                                                 *)
C32_NavigationInRange ==
    \A page \in Pages \cup {MaxPage + 1} :
        LET after == handlePageChange(store, page)
        IN  /\ after # store =>
                  /\ page >= 1
                  /\ page <= TotalPages(store)
                  /\ CurrentPage(after) = page
                  /\ OnlyChanged(store, after, {})
            /\ (page < 1 \/ page > TotalPages(store)) => after = store
            /\ (CurrentPage(store) >= 1 /\ CurrentPage(store) <= TotalPages(store))
                  => /\ CurrentPage(after) >= 1
                     /\ CurrentPage(after) <= TotalPages(after)

(* the second of two pages of active tasks is shown *)
C32_Witness ==
    /\ store.currentFilter = "active"
    /\ store.pagination.itemsPerPage = 1
    /\ CurrentPage(store) = 2
    /\ usePaginatedTodos(store).totalPages = 2
    /\ Len(usePaginatedTodos(store).paginatedTodos) = 1

(* Ids of the tasks on the undo stack, and of every task the store holds *)
StackIds(s) == { s.deletedTodos[i].todo.id : i \in 1..Len(s.deletedTodos) }

AllIds(s) == IdsOf(s.todos) \cup StackIds(s)

StackTasks(s) == { s.deletedTodos[i].todo : i \in 1..Len(s.deletedTodos) }

LiveTasks(s) == { s.todos[i] : i \in 1..Len(s.todos) }

NoSharedIds(s) ==
    /\ IdsOf(s.todos) \cap StackIds(s) = {}
    /\ Cardinality(StackIds(s)) = Len(s.deletedTodos)

(* C33: no id is both live and on the undo stack and none is twice on the    *)
(* stack; a task passing between the two is carried over as it was and the   *)
(* set of held ids stays the same; an id joins that set only when a task is  *)
(* added, and ids leave it only when the completed tasks are cleared.        *)
C33_TasksMoveBetween ==
    /\ NoSharedIds(store)
    /\ [][ /\ NoSharedIds(store')
           /\ AllIds(store') \ AllIds(store) # {} =>
                 /\ AllIds(store') \ AllIds(store) = {nextId}
                 /\ nextId' = nextId + 1
                 /\ store'.todos[1].id = nextId
                 /\ AllIds(store) \subseteq AllIds(store')
           /\ AllIds(store) \ AllIds(store') # {} =>
                 /\ AllIds(store) \ AllIds(store')
                       = { task.id : task \in
                               { t \in LiveTasks(store) : t.completed } }
                 /\ store'.todos
                       = SelectSeq(store.todos, LAMBDA todo : ~todo.completed)
                 /\ store'.deletedTodos = store.deletedTodos
           /\ \A task \in StackTasks(store') :
                 task.id \in IdsOf(store.todos) => task \in LiveTasks(store)
           /\ \A task \in LiveTasks(store') :
                 task.id \in StackIds(store) => task \in StackTasks(store)
         ]_vars

(* one task is live and another, completed before it was deleted, is on the  *)
(* undo stack                                                                *)
C33_Witness ==
    /\ Len(store.todos) = 1
    /\ Len(store.deletedTodos) = 1
    /\ store.deletedTodos[1].todo.completed
    /\ store.todos[1].id # store.deletedTodos[1].todo.id
    /\ nextId = MaxTodos + 1

PageWithin(s) == CurrentPage(s) >= 1 /\ CurrentPage(s) <= TotalPages(s)

(* C34: a restart keeps pagination valid: when currentPage is within         *)
(* [1, totalPages] of the filtered list as the snapshot is written, then     *)
(* after rehydration, with the filters back at their defaults, currentPage   *)
(* is within [1, totalPages] of the list shown then.                         *)
C34_RestartKeepsPage ==
    PageWithin(store) =>
        /\ LET restarted == rehydrate(StoredItem(store))
           IN  /\ DefaultFilters(restarted)
               /\ CurrentPage(restarted) = CurrentPage(store)
               /\ TotalPages(restarted) >= TotalPages(store)
               /\ PageWithin(restarted)
        /\ storage.status = "ok" => PageWithin(rehydrate(storage))

(* page two of the two tasks a search matches is shown, and stored *)
C34_Witness ==
    /\ store.searchQuery = <<"a">>
    /\ store.pagination.itemsPerPage = 1
    /\ CurrentPage(store) = 2
    /\ TotalPages(store) = 2
    /\ storage.status = "ok"
    /\ storage.state.pagination.currentPage = 2

(* the store after every operation but undoDelete and deleteTodo *)
OtherResults(s) ==
    { addTodo(s, text, nextId, Date(now)) : text \in Texts }
        \cup { toggleTodo(s, id) : id \in Ids }
        \cup { updateTodo(s, id, text) : id \in Ids, text \in Texts }
        \cup { clearCompleted(s) }
        \cup { setSearchQuery(s, query) : query \in Queries }
        \cup { setCurrentFilter(s, filter) : filter \in FilterTypes }
        \cup { setDateFilter(s, filter) : filter \in DateFilters }
        \cup { clearDateFilter(s) }
        \cup { setCurrentPage(s, page) : page \in Pages }
        \cup { setItemsPerPage(s, size) : size \in ItemsPerPageChoices }
        \cup { rehydrate(StoredItem(s)) }

(* C35: the undo stack survives a restart with its order: after             *)
(* deleteTodo(a), deleteTodo(b) and a restart, undoDelete puts b at the      *)
(* front of the live collection and a further undoDelete puts a there; every *)
(* deleteTodo of an existing id lengthens the stack by exactly one, whatever *)
(* its length, and only undoDelete shortens it.                              *)
C35_UndoStackSurvives ==
    /\ \A a, b \in IdsOf(store.todos) :
          a # b =>
            LET deleted == deleteTodo(deleteTodo(store, a, Date(now)),
                                      b, Date(now))
                restarted == rehydrate(StoredItem(deleted))
                first == undoDelete(restarted)
                second == undoDelete(first)
            IN  /\ restarted.deletedTodos = deleted.deletedTodos
                /\ restarted.deletedTodos[1].todo.id = b
                /\ restarted.deletedTodos[2].todo.id = a
                /\ SameTask(first.todos[1], findTodo(store.todos, b)[1])
                /\ a \notin IdsOf(first.todos)
                /\ SameTask(second.todos[1], findTodo(store.todos, a)[1])
                /\ SameTask(second.todos[2], findTodo(store.todos, b)[1])
                /\ second.deletedTodos = store.deletedTodos
    /\ \A id \in Ids :
          Len(deleteTodo(store, id, Date(now)).deletedTodos)
              = Len(store.deletedTodos)
                  + (IF id \in IdsOf(store.todos) THEN 1 ELSE 0)
    /\ \A after \in OtherResults(store) :
          Len(after.deletedTodos) >= Len(store.deletedTodos)
    /\ Len(undoDelete(store).deletedTodos)
          = Max(0, Len(store.deletedTodos) - 1)

(* both tasks were deleted, the later-made one last, and the stack of two    *)
(* is what the stored snapshot holds                                         *)
C35_Witness ==
    /\ store.todos = <<>>
    /\ Len(store.deletedTodos) = 2
    /\ store.deletedTodos[1].todo.id > store.deletedTodos[2].todo.id
    /\ storage.status = "ok"
    /\ Len(storage.state.deletedTodos) = 2
    /\ storage.state.deletedTodos[1].todo.id = store.deletedTodos[1].todo.id

PageSizes == (1..(MaxTodos + 1)) \cup {10}

(* the slices of pages first..last, one after the other *)
RECURSIVE PagesJoined(_, _, _, _)
PagesJoined(todos, size, first, last) ==
    IF first > last THEN <<>>
    ELSE getPaginatedTodos(todos, first, size).paginatedTodos
            \o PagesJoined(todos, size, first + 1, last)

PagesPartition(todos, size) ==
    LET totalPages == getPaginatedTodos(todos, 1, size).totalPages
        page(p) == getPaginatedTodos(todos, p, size).paginatedTodos
    IN  /\ totalPages >= 1
        /\ \A p \in 1..totalPages :
              /\ page(p) # <<>>
              /\ getPaginatedTodos(todos, p, size).totalPages = totalPages
        /\ \A p, q \in 1..totalPages :
              p # q => IdsOf(page(p)) \cap IdsOf(page(q)) = {}
        /\ PagesJoined(todos, size, 1, totalPages) = todos
        /\ \A i \in 1..Len(todos) :
              Cardinality({ p \in 1..totalPages :
                              todos[i].id \in IdsOf(page(p)) }) = 1

(* C36: for every non-empty filtered list and positive itemsPerPage, the     *)
(* slices getPaginatedTodos returns for currentPage = 1..totalPages are each *)
(* non-empty, pairwise disjoint and, joined in page order, equal to the      *)
(* list: every visible task is on exactly one page.                          *)
C36_PagesPartition ==
    \A todos \in {useFilteredTodos(store), store.todos} :
        \A size \in PageSizes :
            todos # <<>> => PagesPartition(todos, size)

(* a date range shows both of two tasks, made on the same day *)
C36_Witness ==
    /\ store.dateFilter.selectedDate = Null
    /\ store.dateFilter.startDate # Null
    /\ store.dateFilter.endDate # Null
    /\ Len(store.todos) = 2
    /\ useFilteredTodos(store) = store.todos
    /\ DayOf(store.todos[1].createdAt) = DayOf(store.todos[2].createdAt)

(* the store with other filters, on its own page or on another *)
Variants(s) ==
    { [s EXCEPT !.searchQuery = query,
                !.currentFilter = filter,
                !.dateFilter = date,
                !.pagination = pagination] :
        query \in Queries, filter \in FilterTypes, date \in DateFilters,
        pagination \in
            { s.pagination,
              [s.pagination EXCEPT !.currentPage = MaxPage,
                                   !.itemsPerPage = 1] } }

(* the store after every filter and pagination operation *)
FilterResults(s) ==
    { setSearchQuery(s, query) : query \in Queries }
        \cup { setCurrentFilter(s, filter) : filter \in FilterTypes }
        \cup { setDateFilter(s, filter) : filter \in DateFilters }
        \cup { clearDateFilter(s) }
        \cup { setCurrentPage(s, page) : page \in Pages }
        \cup { setItemsPerPage(s, size) : size \in ItemsPerPageChoices }
        \cup { handlePageChange(s, page) : page \in Pages }
        \cup { handleItemsPerPageChange(s, size) :
                 size \in ItemsPerPageChoices }

(* C37: the stats triple depends only on the live collection: two store      *)
(* states with the same todos but another searchQuery, currentFilter,        *)
(* dateFilter or pagination give the same total, active and completed, and   *)
(* no filter or pagination operation changes the stats.                      *)
C37_StatsIgnoreFilters ==
    /\ \A variant \in Variants(store) :
          useTodoStats(variant) = useTodoStats(store)
    /\ \A after \in FilterResults(store) :
          useTodoStats(after) = useTodoStats(store)

(* the filters show one of two tasks while the stats count both *)
C37_Witness ==
    /\ store.searchQuery = <<"a">>
    /\ store.currentFilter = "completed"
    /\ Len(useFilteredTodos(store)) = 1
    /\ useTodoStats(store).total = 2
    /\ useTodoStats(store).completed = 2

====
